---- MODULE Spec2Model ----
(***************************************************************************)
(* SnackSession (src/src/SnackSession.js): the session state, the          *)
(* publication pipeline and the dependency resolution engine.              *)
(*                                                                         *)
(* One action is one macrotask of the JavaScript event loop: a call by the *)
(* host, a transport event, a timer, or the completion of an I/O request,  *)
(* together with every synchronous and promise (microtask) continuation it *)
(* runs.  An await on I/O ends the action; the completion of the I/O is an  *)
(* action of its own.                                                      *)
(***************************************************************************)
EXTENDS Integers, Sequences, FiniteSets, TLC

VARIABLES
    lateLhs,        \* build: `x.y[k] = await e` resolves x.y after the await
    sdkVersion, name, description, dependencies, initialState,
    files,          \* this.files: key -> [type, contents, owner]
    diff, s3url, s3code,
    isStarted, subscribed,
    isResolving, loadingMessage,
    tasks,          \* per-file tasks of _handleFindDependenciesAsync
    promises,       \* this._promises
    sends,          \* sendCodeAsync calls awaiting an asset upload
    timer,          \* the debounce timer of _publish is pending
    pubs,           \* _publishNotDebouncedAsync calls awaiting
    saves,          \* saveAsync calls awaiting the save endpoint
    lastMsg,        \* the last message handed to pubnub.publish
    due,            \* history: what has been asked for and not yet published
    event,          \* history: what the last step did
    ops,            \* history: number of host calls and transport events
    sessionId,      \* options.sessionId of the constructor call
    channel,        \* this.channel
    status,         \* "new", "constructed", or "threw" (the constructor)
    listeners,      \* kind -> the listener array of that kind
    dispatched,     \* history: the last dispatch to a listener array
    presence,       \* history: the last presence event of the transport
    source,         \* the source text given to findModuleDependencies
    found,          \* what findModuleDependencies returned for it
    clock,          \* ms since the last sendCodeAsync call, the last _publish
                    \* call, and the call the debounce timer counts from
    fires,          \* history: debounced publishes of the current burst
    dependencyErrorListener,    \* the host has set this.dependencyErrorListener
    fallback,       \* cache id -> the catch handler of its failed fetch
    answer,         \* history: the last answer of the bundler or of the CDN
    poll            \* one call of _tryFetchDependencyAsync

vars == <<lateLhs, sdkVersion, name, description, dependencies, initialState,
          files, diff, s3url, s3code, isStarted, subscribed, isResolving,
          loadingMessage, tasks, promises, sends, timer, pubs, saves,
          lastMsg, due, event, ops,
          sessionId, channel, status, listeners, dispatched, presence,
          source, found, clock, fires,
          dependencyErrorListener, fallback, answer, poll>>

sessionVars == <<lateLhs, sdkVersion, name, description, dependencies,
                 initialState, files, diff, s3url, s3code, isStarted,
                 subscribed, isResolving, loadingMessage, tasks, promises,
                 sends, timer, pubs, saves, lastMsg, due, event, ops>>

\* The state of the host interface, which no step of the publication
\* pipeline touches.
hostVars == <<sessionId, channel, status, listeners, dispatched, presence>>

\* The state of the specifications of single functions.
auxVars == <<source, found, clock, fires,
             dependencyErrorListener, fallback, answer, poll>>


\* The state of the bundler fallback and of the poll loop.
fetchVars == <<dependencyErrorListener, fallback, answer, poll>>

\* Host calls and transport events in one behaviour.
MaxOps == 3

\* saveAsync calls awaiting the save endpoint at one time.
MaxSaves == 1

MAX_PUBNUB_SIZE == 31500

-----------------------------------------------------------------------------
(* Maps (JavaScript objects used as dictionaries). *)

EmptyMap == [k \in {} |-> k]

Put(m, k, v) == [y \in DOMAIN m \cup {k} |-> IF y = k THEN v ELSE m[y]]

\* {...a, ...b} and Object.assign(a, b)
Merge(a, b) == [y \in DOMAIN a \cup DOMAIN b |-> IF y \in DOMAIN b THEN b[y] ELSE a[y]]

Last(q) == q[Len(q)]

Front(q) == SubSeq(q, 1, Len(q) - 1)

-----------------------------------------------------------------------------
(* File keys and contents. *)

\* Object.keys / for-in order of the bundles considered.
KeyOrder == <<"app.js", "b.js", "c.png">>

\* key.endsWith('.js')
EndsWithJs(key) == key \in {"app.js", "b.js"}

Null == "null"

\* Contents: a text (kind "text"), a binary blob handle (typeof === 'object',
\* kind "blob") or an object-store URL (kind "url").  imports is what the
\* import scanner reads from a text: module specifier -> version or Null.
Text(id, imports) == [kind |-> "text", id |-> id, imports |-> imports]

EmptyString == Text("", EmptyMap)

Blob(id) == [kind |-> "blob", id |-> id, imports |-> EmptyMap]

\* The URL the object store returns for contents c (content-addressed).
Url(c) == [c EXCEPT !.kind = "url"]

IsObject(c) == c.kind = "blob"

\* contents.startsWith(S3_BUCKET_URL)
StartsWithS3Bucket(c) == c.kind = "url"

\* contents.length
Length(c) ==
    CASE c.kind = "url" -> 80
      [] c.id = "" -> 0
      [] c.id = "L" -> 31300
      [] c.id = "XL" -> 40000
      [] OTHER -> 10

File(type, contents) == [type |-> type, contents |-> contents, owner |-> 0]

\* The bundles the host passes to the constructor and to sendCodeAsync.
Bundles ==
    { [k \in {"app.js"} |-> File("CODE", Text("s", EmptyMap))],
      [k \in {"app.js"} |-> File("CODE", Text("XL", EmptyMap))],
      [k \in {"app.js", "b.js"} |->
          IF k = "app.js" THEN File("CODE", Text("s", EmptyMap))
          ELSE File("CODE", Text("L", EmptyMap))],
      [k \in {"app.js", "b.js"} |->
          IF k = "app.js" THEN File("CODE", Text("s", [m |-> Null]))
          ELSE File("CODE", Text("s", [m |-> "1"]))],
      [k \in {"app.js", "c.png"} |->
          IF k = "app.js" THEN File("CODE", Text("s", EmptyMap))
          ELSE File("ASSET", Blob("img"))] }

\* The keys of map m in Object.keys order.
RECURSIVE KeysFrom(_, _)
KeysFrom(m, i) ==
    IF i > Len(KeyOrder) THEN <<>>
    ELSE (IF KeyOrder[i] \in DOMAIN m THEN <<KeyOrder[i]>> ELSE <<>>)
         \o KeysFrom(m, i + 1)

ObjectKeys(m) == KeysFrom(m, 1)

\* A file map without the object identities: what cloneDeep copies, isEqual
\* compares and JSON.stringify writes.
Plain(fs) == [k \in DOMAIN fs |-> [type |-> fs[k].type, contents |-> fs[k].contents]]

-----------------------------------------------------------------------------
(* SDK feature table. *)

\* One version for every set of the two features the session consults.
FeatureTable ==
    [legacy |-> {}, files |-> {"MULTIPLE_FILES"}, imports |-> {"ARBITRARY_IMPORTS"},
     full |-> {"MULTIPLE_FILES", "ARBITRARY_IMPORTS"}]

SdkVersions == DOMAIN FeatureTable

defaultSDKVersion == "full"

sdkSupportsFeature(version, feature) == feature \in FeatureTable[version]

supportsFeature(s, feature) == sdkSupportsFeature(s.sdkVersion, feature)

-----------------------------------------------------------------------------
(* sendFileUtils: diff and payload size. *)

\* this.diff[key] = ''
NoDiff == [patch |-> FALSE, from |-> EmptyString, to |-> EmptyString]

getFileDiff(prev, next) == [patch |-> TRUE, from |-> prev, to |-> next]

\* this.diff[key].length
DiffLength(d) ==
    IF ~d.patch THEN 0
    ELSE IF d.from = d.to THEN 20
    ELSE IF d.from = EmptyString THEN 20 + Length(d.to)
    ELSE 20 + Length(d.from) + Length(d.to)

RECURSIVE SumOver(_, _)
SumOver(m, ks) ==
    IF ks = {} THEN 0
    ELSE LET k == CHOOSE x \in ks : TRUE
         IN m[k] + SumOver(m, ks \ {k})

calcPayloadSize(d, u) ==
    100 + SumOver([k \in DOMAIN d |-> 10 + DiffLength(d[k])], DOMAIN d)
        + SumOver([k \in DOMAIN u |-> 10 + Length(u[k])], DOMAIN u)

-----------------------------------------------------------------------------
(* The transport. *)

NoMsg == [type |-> "NONE", diff |-> EmptyMap, s3url |-> EmptyMap, code |-> EmptyString]

NothingDue == [edit |-> FALSE, join |-> FALSE]

\* this.pubnub.publish({ channel, message }, callback)
pubnubPublish(s, message) ==
    [s EXCEPT !.lastMsg = message,
              !.due = IF message.type = "CODE" THEN NothingDue ELSE @,
              !.event = IF message.type = "CODE" THEN [@ EXCEPT !.code = TRUE]
                        ELSE [@ EXCEPT !.loading = TRUE]]

_sendLoadingEvent(s) ==
    IF s.loadingMessage = Null THEN s
    ELSE IF ~s.pubnub THEN s
    ELSE pubnubPublish(s, [NoMsg EXCEPT !.type = "LOADING_MESSAGE"])

-----------------------------------------------------------------------------
(* Snapshot construction and spill: _uploadHelper, _handleUploadCodeAsync. *)

\* A publish call that awaits: pc "resolving" (the resolution it started),
\* "helper" (the asset uploads of _uploadHelper) or "spill" (the upload of the
\* spill loop).  uploads: key -> the URL the awaited upload will return;
\* fileSize is the local array of _handleUploadCodeAsync; stale: stopAsync
\* replaced this.s3url since the awaited uploads were started.
PubTask(pc, uploads, fileSize) ==
    [pc |-> pc, uploads |-> uploads, fileSize |-> fileSize, stale |-> FALSE]

\* The body of the map callback of _uploadHelper for one key, up to its await.
UploadHelperKey(r, key) ==
    LET s == r.s
        c == s.files[key].contents
    IN  IF IsObject(c)
        THEN [r EXCEPT !.s.s3code = Put(@, key, c),
                       !.s.diff = Put(@, key, NoDiff),
                       !.uploads = Put(@, key, Url(c))]
        ELSE LET s1 ==
                   IF StartsWithS3Bucket(c)
                   THEN [s EXCEPT !.diff = Put(@, key, NoDiff),
                                  !.s3code = Put(@, key, c),
                                  !.s3url = Put(@, key, c)]
                   ELSE IF key \in DOMAIN s.s3url
                   THEN [s EXCEPT !.diff = Put(@, key, getFileDiff(s.s3code[key], c))]
                   ELSE [s EXCEPT !.diff = Put(@, key, getFileDiff(EmptyString, c))]
             IN [r EXCEPT !.s = s1,
                          !.fileSize = Append(@, [name |-> key,
                                                   size |-> DiffLength(s1.diff[key])])]

RECURSIVE UploadHelperFrom(_, _)
UploadHelperFrom(r, ks) ==
    IF ks = <<>> THEN r
    ELSE UploadHelperFrom(UploadHelperKey(r, Head(ks)), Tail(ks))

\* _uploadHelper(fileSize) up to `await Promise.all`.
_uploadHelper(s) ==
    UploadHelperFrom([s |-> s, uploads |-> EmptyMap, fileSize |-> <<>>], ObjectKeys(s.files))

\* fileSize.sort((a, b) => a.size - b.size): insertion sort, stable.
RECURSIVE InsertBySize(_, _)
InsertBySize(sorted, e) ==
    IF sorted = <<>> THEN <<e>>
    ELSE IF Last(sorted).size <= e.size THEN Append(sorted, e)
    ELSE Append(InsertBySize(Front(sorted), e), Last(sorted))

RECURSIVE SortBySize(_)
SortBySize(q) ==
    IF q = <<>> THEN <<>> ELSE InsertBySize(SortBySize(Front(q)), Last(q))

\* The CODE message of a session that supports MULTIPLE_FILES.
PublishDiff(s) ==
    pubnubPublish(s, [NoMsg EXCEPT !.type = "CODE", !.diff = s.diff, !.s3url = s.s3url])

\* The while loop of _handleUploadCodeAsync from its test, up to the next
\* await; after the loop the message is published.
SpillLoop(s, fileSize) ==
    IF calcPayloadSize(s.diff, s.s3url) > MAX_PUBNUB_SIZE /\ fileSize # <<>>
    THEN LET key == Last(fileSize).name
         IN  IF key \notin DOMAIN s.files
             THEN s      \* this.files[key] is undefined: TypeError, the call rejects
             ELSE [s EXCEPT !.s3code = Put(@, key, s.files[key].contents),
                            !.diff = Put(@, key, NoDiff),
                            !.pubs = Append(@, PubTask("spill",
                                          Put(EmptyMap, key, Url(s.files[key].contents)),
                                          Front(fileSize)))]
    ELSE PublishDiff(s)

\* _handleUploadCodeAsync after `await this._uploadHelper(fileSize)`.
AfterUploadHelper(s, fileSize) ==
    IF calcPayloadSize(s.diff, s.s3url) > MAX_PUBNUB_SIZE
    THEN SpillLoop(s, SortBySize(fileSize))
    ELSE PublishDiff(s)

_handleUploadCodeAsync(s) ==
    LET r == _uploadHelper(s)
    IN  IF r.uploads # EmptyMap
        THEN [r.s EXCEPT !.pubs = Append(@, PubTask("helper", r.uploads, r.fileSize))]
        ELSE AfterUploadHelper(r.s, r.fileSize)

\* _publishNotDebouncedAsync from `if (this.isResolving)` on.
PublishCode(s) ==
    IF s.isResolving THEN s
    ELSE IF supportsFeature(s, "MULTIPLE_FILES") THEN _handleUploadCodeAsync(s)
    ELSE pubnubPublish(s, [NoMsg EXCEPT !.type = "CODE",
                                        !.code = s.files["app.js"].contents])

-----------------------------------------------------------------------------
(* The bundler and the promise cache: _maybeFetchDependencyAsync. *)

Reserved == {"react", "react-native", "expo"}

\* Module names in the order in which maps of modules are enumerated.
NameOrder == <<"m", "p", "react", "expo">>

RECURSIVE NamesFrom(_, _)
NamesFrom(m, i) ==
    IF i > Len(NameOrder) THEN <<>>
    ELSE (IF NameOrder[i] \in DOMAIN m THEN <<NameOrder[i]>> ELSE <<>>)
         \o NamesFrom(m, i + 1)

NamesOf(m) == NamesFrom(m, 1)

\* `${name}-${version || 'latest'}`
CacheId(n, version) == <<n, IF version = Null THEN "latest" ELSE version>>

Data(n, version, deps) == [name |-> n, version |-> version, dependencies |-> deps]

NoData == Data("", "", EmptyMap)

\* What the bundler may answer to GET /bundle/<name>[@<version>].
BundlerReplies(id) ==
    IF id = <<"m", "latest">>
    THEN { Data("m", "1", EmptyMap),
           Data("m", "1", [p |-> "^2", react |-> "16"]),
           Data("expo", "1", EmptyMap) }
    ELSE { Data(id[1],
                CASE id[2] = "^2" -> "2" [] id[2] = "latest" -> "3" [] OTHER -> id[2],
                EmptyMap) }

\* tries: the calls of _tryFetchDependencyAsync made for the cache id.
Pending == [done |-> FALSE, data |-> NoData, tries |-> 1]

\* A cache that keeps the promise in flight and forgets what it settled to.
FetchAgainWhenSettled(s, n, version) ==
    LET id == CacheId(n, version)
    IN  IF id \notin DOMAIN s.promises
        THEN [s EXCEPT !.promises = Put(@, id, Pending)]
        ELSE IF s.promises[id].done
        THEN [s EXCEPT !.promises[id] = [Pending EXCEPT !.tries = s.promises[id].tries + 1]]
        ELSE [s EXCEPT !.event.cached = @ \cup {id}]

\* this._promises[id] = this._promises[id] || this._tryFetchDependencyAsync(...)
_maybeFetchDependencyAsync(s, n, version) ==
    IF CacheId(n, version) \in DOMAIN s.promises
    THEN [s EXCEPT !.event.cached = @ \cup {CacheId(n, version)}]
    ELSE [s EXCEPT !.promises = Put(@, CacheId(n, version), Pending)]

RECURSIVE FetchAll(_, _, _)
FetchAll(s, modules, ns) ==
    IF ns = <<>> THEN s
    ELSE FetchAll(_maybeFetchDependencyAsync(s, Head(ns), modules[Head(ns)]),
                  modules, Tail(ns))

\* Every promise of Promise.all(Object.keys(modules).map(...)) is settled.
AllSettled(s, modules) ==
    \A n \in DOMAIN modules : s.promises[CacheId(n, modules[n])].done

\* The array Promise.all resolves to.
RECURSIVE ResultsFrom(_, _, _)
ResultsFrom(s, modules, ns) ==
    IF ns = <<>> THEN <<>>
    ELSE <<s.promises[CacheId(Head(ns), modules[Head(ns)])].data>>
         \o ResultsFrom(s, modules, Tail(ns))

Results(s, modules) == ResultsFrom(s, modules, NamesOf(modules))

-----------------------------------------------------------------------------
(* findAndWriteDependencyVersions and insertImport. *)

\* A text that is not source code with imports (a URL) names no module.
findModuleDependencies(file) == IF file.kind = "text" THEN file.imports ELSE EmptyMap

\* pickBy(..., (version, module) => !module.startsWith('.') && !reserved.includes(module))
PickModules(file) ==
    LET all == findModuleDependencies(file)
    IN  [n \in DOMAIN all \ Reserved |-> all[n]]

\* insertImport(ast, { from }) for every `from` of a sequence of results
RECURSIVE InsertImports(_, _)
InsertImports(file, rs) ==
    IF rs = <<>> THEN file
    ELSE InsertImports(
            IF Head(rs).name \in DOMAIN file.imports THEN file
            ELSE [file EXCEPT !.imports = Put(@, Head(rs).name, Null)],
            Tail(rs))

writeModuleVersions(file, pins) ==
    [file EXCEPT !.imports =
        [n \in DOMAIN @ |-> IF n \in DOMAIN pins THEN pins[n] ELSE @[n]]]

\* dependencies[it.name] = it.version for every result, in order
RECURSIVE PinAll(_, _)
PinAll(pins, rs) ==
    IF rs = <<>> THEN pins
    ELSE PinAll(Put(pins, Head(rs).name, Head(rs).version), Tail(rs))

\* peerDependencies[name] = it.dependencies[name] unless reserved
RECURSIVE CollectPeers(_, _)
CollectPeers(peers, rs) ==
    IF rs = <<>> THEN peers
    ELSE LET d == Head(rs).dependencies
         IN CollectPeers(Merge(peers, [n \in DOMAIN d \ Reserved |-> d[n]]), Tail(rs))

-----------------------------------------------------------------------------
(* The dependency engine: _handleFindDependenciesAsync and                 *)
(* _findDependenciesOnceAsync.                                             *)

\* One callback of Object.keys(files).map(async key => ...) that awaits:
\* file is codeAtStartOfFindDependencies; stage "direct" awaits the fetches of
\* the imported modules, "peers" those of the peer dependencies; live: its
\* resolution has not reached its finally block.
Task(key, file) == [key |-> key, file |-> file, live |-> TRUE, stage |-> "direct"]

\* _findDependenciesOnceAsync(file) up to its first await.
FindDependenciesStart(s, key) ==
    LET file == s.files[key].contents
        modules == PickModules(file)
        changedModules == {n \in DOMAIN modules :
                              n \notin DOMAIN s.dependencies
                              \/ modules[n] # s.dependencies[n]}
    IN  IF DOMAIN modules = {} \/ changedModules = {} THEN s
        ELSE LET s1 == _sendLoadingEvent(
                           [s EXCEPT !.loadingMessage = "Installing dependencies"])
                 s2 == FetchAll(s1, modules, NamesOf(modules))
             IN [s2 EXCEPT !.tasks = Append(@, Task(key, file))]

RECURSIVE StartTasks(_, _)
StartTasks(s, ks) ==
    IF ks = <<>> THEN s
    ELSE StartTasks(IF EndsWithJs(Head(ks)) THEN FindDependenciesStart(s, Head(ks)) ELSE s,
                    Tail(ks))

\* _findDependenciesOnceAsync from the first await to the second.
CollectPeersStep(s, i) ==
    LET t == s.tasks[i]
        results == Results(s, PickModules(t.file))
        peerDependencies == CollectPeers(EmptyMap, results)
        s1 == [s EXCEPT !.dependencies = Merge(@, peerDependencies),
                        !.tasks[i].stage = "peers"]
    IN  FetchAll(s1, peerDependencies, NamesOf(peerDependencies))

\* files[key].contents = codeWithVersions, when the contents are still those
\* captured; reading files[key].contents of a removed key throws.
WriteBack(s, i, code) ==
    LET t == s.tasks[i]
    IN  IF t.key \notin DOMAIN s.files THEN [s EXCEPT !.tasks[i].stage = "threw"]
        ELSE IF s.files[t.key].contents = t.file
        THEN [s EXCEPT !.files[t.key].contents = code, !.tasks[i].stage = "done"]
        ELSE [s EXCEPT !.tasks[i].stage = "done"]

\* _findDependenciesOnceAsync from the second await on, and the write back.
PinStep(s, i) ==
    LET t == s.tasks[i]
        results == Results(s, PickModules(t.file))
        peers == CollectPeers(EmptyMap, results)
        peerDependencies == Results(s, peers)
        pins == PinAll(PinAll(EmptyMap, peerDependencies), results)
        code == writeModuleVersions(
                    IF peerDependencies # <<>> THEN InsertImports(t.file, peerDependencies)
                    ELSE t.file,
                    pins)
    IN  WriteBack([s EXCEPT !.dependencies = Merge(@, pins)], i, code)

RECURSIVE PeersPhase(_, _)
PeersPhase(s, i) ==
    IF i > Len(s.tasks) THEN s
    ELSE PeersPhase(
            IF s.tasks[i].stage = "direct" /\ AllSettled(s, PickModules(s.tasks[i].file))
            THEN CollectPeersStep(s, i) ELSE s,
            i + 1)

RECURSIVE PinPhase(_, _)
PinPhase(s, i) ==
    IF i > Len(s.tasks) THEN s
    ELSE PinPhase(
            IF s.tasks[i].stage = "peers"
               /\ AllSettled(s, CollectPeers(EmptyMap, Results(s, PickModules(s.tasks[i].file))))
            THEN PinStep(s, i) ELSE s,
            i + 1)

\* A resolution that releases at the end of its try block: once a callback
\* has thrown, nothing releases it.
SettleWithoutFinally(s) ==
    LET threw == \E i \in 1..Len(s.tasks) : s.tasks[i].live /\ s.tasks[i].stage = "threw"
        waits == \E i \in 1..Len(s.tasks) :
                    s.tasks[i].live /\ s.tasks[i].stage \in {"direct", "peers"}
        Unreturned(t) == t.stage \in {"direct", "peers", "threw"}
        rest == SelectSeq(s.tasks, Unreturned)
    IN  IF s.isResolving /\ ~threw /\ ~waits
        THEN [s EXCEPT !.tasks = [i \in 1..Len(rest) |-> [rest[i] EXCEPT !.live = FALSE]],
                       !.loadingMessage = Null,
                       !.isResolving = FALSE]
        ELSE [s EXCEPT !.tasks = rest]

\* The catch and finally blocks of _handleFindDependenciesAsync: Promise.all
\* settles when a callback has thrown or all have returned.  A callback that
\* still awaits keeps running.
Settle(s) ==
    LET threw == \E i \in 1..Len(s.tasks) : s.tasks[i].live /\ s.tasks[i].stage = "threw"
        waits == \E i \in 1..Len(s.tasks) :
                    s.tasks[i].live /\ s.tasks[i].stage \in {"direct", "peers"}
        Awaiting(t) == t.stage \in {"direct", "peers"}
        rest == SelectSeq(s.tasks, Awaiting)
    IN  IF s.isResolving /\ (threw \/ ~waits)
        THEN [s EXCEPT !.tasks = [i \in 1..Len(rest) |-> [rest[i] EXCEPT !.live = FALSE]],
                       !.loadingMessage = Null,
                       !.isResolving = FALSE]
        ELSE [s EXCEPT !.tasks = rest]

\* The publish call that awaited this resolution goes on.
ResumePublish(s) ==
    IF s.isResolving \/ ~\E i \in 1..Len(s.pubs) : s.pubs[i].pc = "resolving" THEN s
    ELSE LET Other(p) == p.pc # "resolving"
         IN PublishCode([s EXCEPT !.pubs = SelectSeq(@, Other)])

\* Every continuation that the settled promises of the cache allow.
RunTasks(s) == ResumePublish(Settle(PinPhase(PeersPhase(s, 1), 1)))

_handleFindDependenciesAsync(s) ==
    IF ~supportsFeature(s, "ARBITRARY_IMPORTS") THEN s
    ELSE IF s.isResolving THEN s
    ELSE RunTasks(StartTasks([s EXCEPT !.isResolving = TRUE], ObjectKeys(s.files)))

-----------------------------------------------------------------------------
(* Publication. *)

_publishNotDebouncedAsync(s) ==
    IF s.loadingMessage # Null THEN _sendLoadingEvent(s)
    ELSE LET s1 == IF supportsFeature(s, "ARBITRARY_IMPORTS")
                   THEN _handleFindDependenciesAsync(s) ELSE s
         IN  IF ~s.isResolving /\ s1.isResolving
             THEN [s1 EXCEPT !.pubs = Append(@, PubTask("resolving", EmptyMap, <<>>))]
             ELSE PublishCode(s1)

\* _publish = debounce(this._publishNotDebouncedAsync, DEBOUNCE_INTERVAL)
_publish(s) == [s EXCEPT !.timer = TRUE]

_handleResendCodeMessage(s) == _publishNotDebouncedAsync(s)

\* A handler that went through the debounced wrapper.
PublishDebounced(s) == _publish(s)

_handleJoinMessage(s) == _publishNotDebouncedAsync(s)

\* `this.s3url[key] = await upload`: the write reaches this.s3url unless the
\* object was replaced since and the build resolved this.s3url before the await.
StoreUrls(s, p) ==
    IF p.stale /\ ~s.lateLhs THEN s
    ELSE [s EXCEPT !.s3url = Merge(@, p.uploads)]

\* fileSize.push({ name: key, size: this.diff[key].length }) of the callbacks
\* that awaited an upload
RECURSIVE PushSizes(_, _, _)
PushSizes(s, fileSize, ks) ==
    IF ks = <<>> THEN fileSize
    ELSE PushSizes(s, Append(fileSize, [name |-> Head(ks),
                                         size |-> DiffLength(s.diff[Head(ks)])]),
                   Tail(ks))

\* The uploads a publish call awaits have completed.
UploadsDone(s, i) ==
    LET p == s.pubs[i]
        s1 == [StoreUrls(s, p) EXCEPT
                  !.pubs = SubSeq(@, 1, i - 1) \o SubSeq(@, i + 1, Len(@))]
    IN  IF p.pc = "helper"
        THEN AfterUploadHelper(s1, PushSizes(s1, p.fileSize, ObjectKeys(p.uploads)))
        ELSE SpillLoop(s1, p.fileSize)

-----------------------------------------------------------------------------
(* The public operations. *)

\* What a step did: kind names the step ("sent": a sendCodeAsync call
\* completed with argument f, whose file objects are tagged owner); code and
\* loading: it published a CODE / LOADING_MESSAGE message; stale: it completed
\* an upload started before a stopAsync, or a save of a payload that is not
\* the state of the session; cached: the cache ids for which it found
\* this._promises[id] set.
NoEvent == [kind |-> "none", code |-> FALSE, loading |-> FALSE,
            f |-> EmptyMap, owner |-> 0, stale |-> FALSE, cached |-> {}]

\* cloneDeep({ files, name, description, dependencies, sdkVersion })
StateTuple(s) ==
    [files |-> Plain(s.files), name |-> s.name, description |-> s.description,
     dependencies |-> s.dependencies, sdkVersion |-> s.sdkVersion]

_isSaved(s) == s.initialState = StateTuple(s)

startAsync(s) == [s EXCEPT !.isStarted = TRUE, !.subscribed = TRUE]

\* this.s3url = {}: the uploads in flight were started with the old object.
stopAsync(s) ==
    [s EXCEPT !.s3url = EmptyMap,
              !.subscribed = FALSE,
              !.pubs = [i \in 1..Len(@) |->
                           IF @[i].uploads # EmptyMap THEN [@[i] EXCEPT !.stale = TRUE]
                           ELSE @[i]]]

\* A sendCodeAsync call that awaits the upload of the asset `key`: f is its
\* argument, rest the keys its second loop has still to visit, owner the
\* identity of the file objects of f.
SendTask(owner, f, key, rest) == [owner |-> owner, f |-> f, key |-> key, rest |-> rest]

\* The second loop of sendCodeAsync, up to its next await or to its end.
RECURSIVE SendLoop(_, _, _, _)
SendLoop(s, owner, f, rest) ==
    IF rest = <<>>
    THEN [_publish(s) EXCEPT !.due.edit = TRUE,
                             !.event.kind = "sent",
                             !.event.f = f,
                             !.event.owner = owner]
    ELSE LET key == Head(rest)
             s1 == [s EXCEPT !.files = Put(@, key, [f[key] EXCEPT !.owner = owner])]
         IN  IF f[key].type = "ASSET" /\ IsObject(f[key].contents)
             THEN [s1 EXCEPT !.sends = Append(@, SendTask(owner, f, key, Tail(rest)))]
             ELSE SendLoop(s1, owner, f, Tail(rest))

\* An identity for the file objects of a new call: the objects of f are new.
FreshOwner(s) ==
    CHOOSE o \in 1..(Len(s.sends) + 1) : \A i \in 1..Len(s.sends) : s.sends[i].owner # o

sendCodeAsync(s, f) ==
    SendLoop([s EXCEPT !.files = [k \in DOMAIN @ \cap DOMAIN f |-> @[k]]],
             FreshOwner(s), f, ObjectKeys(f))

\* `this.files[key].contents = await upload`, then the rest of the loop.  The
\* object written is the one of f, or the one this.files[key] names after the
\* await when the build resolves it then (undefined: the call rejects).
AssetUploaded(s, i) ==
    LET c == s.sends[i]
        url == Url(c.f[c.key].contents)
        s1 == [s EXCEPT !.sends = SubSeq(@, 1, i - 1) \o SubSeq(@, i + 1, Len(@))]
    IN  IF s.lateLhs
        THEN IF c.key \notin DOMAIN s.files THEN s1
             ELSE SendLoop([s1 EXCEPT !.files[c.key].contents = url], c.owner, c.f, c.rest)
        ELSE IF c.key \in DOMAIN s.files /\ s.files[c.key].owner = c.owner
             THEN SendLoop([s1 EXCEPT !.files[c.key].contents = url], c.owner, c.f, c.rest)
             ELSE SendLoop(s1, c.owner, c.f, c.rest)

setSdkVersion(s, v) ==
    IF s.sdkVersion # v THEN _handleFindDependenciesAsync([s EXCEPT !.sdkVersion = v])
    ELSE s

setName(s, n) == IF s.name # n THEN [s EXCEPT !.name = n] ELSE s

\* saveAsync up to `await fetch(url, ...)`: the request body is written.
saveAsync(s) ==
    [s EXCEPT !.saves = Append(@,
        [manifest |-> [sdkVersion |-> s.sdkVersion, name |-> s.name,
                       description |-> s.description,
                       dependencies |-> IF supportsFeature(s, "ARBITRARY_IMPORTS")
                                        THEN s.dependencies ELSE EmptyMap],
         code |-> Plain(s.files)])]

\* The payload of the save request i as a state tuple; a manifest written
\* without ARBITRARY_IMPORTS carries no dependencies.
Sent(s, i) ==
    LET sent == s.saves[i]
    IN  [files |-> sent.code, name |-> sent.manifest.name,
         description |-> sent.manifest.description,
         dependencies |-> IF sdkSupportsFeature(sent.manifest.sdkVersion,
                                                "ARBITRARY_IMPORTS")
                          THEN sent.manifest.dependencies ELSE s.dependencies,
         sdkVersion |-> sent.manifest.sdkVersion]

\* A saveAsync that recorded as saved what it sent, not what the session
\* holds when the response arrives.
SaveResponseOfPayload(s, i, ok) ==
    LET s1 == [s EXCEPT !.saves = SubSeq(@, 1, i - 1) \o SubSeq(@, i + 1, Len(@))]
    IN  IF ok
        THEN [s1 EXCEPT !.initialState = Sent(s, i),
                        !.event.kind = "saved",
                        !.event.stale = Sent(s, i) # StateTuple(s)]
        ELSE s1

\* saveAsync from the response on; ok: the response carries an id.
SaveResponse(s, i, ok) ==
    LET s1 == [s EXCEPT !.saves = SubSeq(@, 1, i - 1) \o SubSeq(@, i + 1, Len(@))]
    IN  IF ok
        THEN [s1 EXCEPT !.initialState = StateTuple(s1),
                        !.event.kind = "saved",
                        !.event.stale = Sent(s, i) # StateTuple(s)]
        ELSE s1

\* new SnackSession(options); this.pubnub is created after the resolution
\* has been started.
Constructed(options) ==
    LET s0 == [lateLhs |-> options.lateLhs,
               pubnub |-> FALSE,
               sdkVersion |-> IF options.sdkVersion = Null THEN defaultSDKVersion
                              ELSE options.sdkVersion,
               name |-> options.name,
               description |-> options.description,
               dependencies |-> options.dependencies,    \* absent: {}
               initialState |-> Null,
               files |-> options.files,
               diff |-> EmptyMap, s3url |-> EmptyMap, s3code |-> EmptyMap,
               isStarted |-> FALSE, subscribed |-> FALSE,
               isResolving |-> FALSE, loadingMessage |-> Null,
               tasks |-> <<>>, promises |-> EmptyMap, sends |-> <<>>,
               timer |-> FALSE, pubs |-> <<>>, saves |-> <<>>,
               lastMsg |-> NoMsg, due |-> NothingDue,
               event |-> [NoEvent EXCEPT !.kind = "constructed"], ops |-> 0]
        s1 == [s0 EXCEPT !.initialState = StateTuple(s0)]
    IN  [_handleFindDependenciesAsync(s1) EXCEPT !.pubnub = TRUE]

-----------------------------------------------------------------------------
(* The state machine. *)

\* Identities of file objects that no running sendCodeAsync call can tell
\* apart are forgotten.
Owners == {sends[i].owner : i \in 1..Len(sends)}

\* The session at the beginning of a step of kind `kind`.
Cur(kind) ==
    [lateLhs |-> lateLhs, pubnub |-> TRUE,
     sdkVersion |-> sdkVersion, name |-> name, description |-> description,
     dependencies |-> dependencies, initialState |-> initialState,
     files |-> [k \in DOMAIN files |->
                   IF files[k].owner \in Owners THEN files[k]
                   ELSE [files[k] EXCEPT !.owner = 0]],
     diff |-> diff, s3url |-> s3url, s3code |-> s3code,
     isStarted |-> isStarted, subscribed |-> subscribed,
     isResolving |-> isResolving, loadingMessage |-> loadingMessage,
     tasks |-> tasks, promises |-> promises, sends |-> sends,
     timer |-> timer, pubs |-> pubs, saves |-> saves,
     lastMsg |-> lastMsg, due |-> due,
     event |-> [NoEvent EXCEPT !.kind = kind], ops |-> ops]

ApplySession(r) ==
    /\ lateLhs' = r.lateLhs
    /\ sdkVersion' = r.sdkVersion
    /\ name' = r.name
    /\ description' = r.description
    /\ dependencies' = r.dependencies
    /\ initialState' = r.initialState
    /\ files' = r.files
    /\ diff' = r.diff
    /\ s3url' = r.s3url
    /\ s3code' = r.s3code
    /\ isStarted' = r.isStarted
    /\ subscribed' = r.subscribed
    /\ isResolving' = r.isResolving
    /\ loadingMessage' = r.loadingMessage
    /\ tasks' = r.tasks
    /\ promises' = r.promises
    /\ sends' = r.sends
    /\ timer' = r.timer
    /\ pubs' = r.pubs
    /\ saves' = r.saves
    /\ lastMsg' = r.lastMsg
    /\ due' = r.due
    /\ event' = r.event
    /\ ops' = r.ops

\* A step of the publication pipeline.
Apply(r) ==
    /\ ApplySession(r)
    /\ UNCHANGED <<hostVars, auxVars>>

\* A call by the host or an event of the transport is counted.
Counted(r) == [r EXCEPT !.ops = @ + 1]

(***************************************************************************)
(* The host interface: the channel, the listener arrays, presence.         *)
(***************************************************************************)
MIN_CHANNEL_LENGTH == 6

DEBOUNCE_INTERVAL == 500

\* The granularity of time, in ms.
Step == 100

\* Nothing has been called: every age is at its cap.
NoClock ==
    [call |-> DEBOUNCE_INTERVAL, publish |-> DEBOUNCE_INTERVAL,
     timer |-> DEBOUNCE_INTERVAL]

\* No call of findModuleDependencies has returned.
NotReturned == [returned |-> FALSE, value |-> EmptyMap]

\* Listeners registered at one time, over all kinds.
MaxListeners == 3

\* What shortid.generate() returns: 7 to 14 URL-friendly characters.
ShortIds == {"S1x7aBc", "rkZ9nQ2LmTpXw4"}

\* this.channel = options.sessionId || shortid.generate()
Channel(id, generated) ==
    IF id = Null \/ id = "" THEN generated ELSE id

\* if (this.channel.length < MIN_CHANNEL_LENGTH) throw
ChannelTooShortByTwo(ch) == Len(ch) < MIN_CHANNEL_LENGTH - 1

ChannelTooShort(ch) == Len(ch) < MIN_CHANNEL_LENGTH

ListenerKinds == {"error", "log", "presence", "state"}

ListenerIds == 1 .. MaxListeners

NoListeners == [kind \in ListenerKinds |-> <<>>]

Registered(ls) ==
    UNION {{ls[kind][i] : i \in DOMAIN ls[kind]} : kind \in ListenerKinds}

\* lodash pull(array, value): removes every occurrence, in place.
pull(array, value) == SelectSeq(array, LAMBDA x : x # value)

\* this.<kind>Listeners.push(listener)
addListener(ls, kind, listener) ==
    [ls EXCEPT ![kind] = Append(@, listener)]

\* The remove of the subscription that add<Kind>Listener returned.
remove(ls, kind, listener) ==
    [ls EXCEPT ![kind] = pull(@, listener)]

\* Array.prototype.forEach from index k on: the length is read once, before
\* the first call, and an index is visited only while the array still has
\* it. The callback of listener l calls the remove of the subscription of
\* listener removes[l] (0: of none), which pulls it from the array being
\* walked.
RECURSIVE forEach(_, _, _, _, _)
forEach(array, k, len, removes, calls) ==
    IF k > len THEN [array |-> array, calls |-> calls]
    ELSE IF k > Len(array) THEN forEach(array, k + 1, len, removes, calls)
    ELSE forEach(pull(array, removes[array[k]]), k + 1, len, removes,
                 Append(calls, array[k]))

NoDispatch ==
    [kind |-> Null, before |-> <<>>, calls |-> <<>>, after |-> <<>>]

\* _sendErrorEvent, _sendLogEvent, _sendPresenceEvent, _sendStateEvent: the
\* listener array of the kind after the dispatch, and the calls made.
Dispatch(ls, kind, removes) ==
    forEach(ls[kind], 1, Len(ls[kind]), removes, <<>>)

\* What the callbacks of one dispatch do: at most one of them removes a
\* listener.
Removals ==
    {[l \in ListenerIds |-> IF l = who THEN whom ELSE 0] :
        who \in ListenerIds, whom \in ListenerIds \cup {0}}

\* The identifiers of the subscribers of the channel: a device descriptor,
\* JSON that is not a descriptor, and text that is not JSON (the default
\* identifier of a transport client).
DeviceUuid == "{\"id\":\"d1\",\"name\":\"Pixel\",\"platform\":\"android\"}"

Uuids == {DeviceUuid, "42", "pn-5f3a9c1e"}

\* JSON.parse(uuid): ok is FALSE when it throws.
JSONParse(text) ==
    CASE text = DeviceUuid -> [ok |-> TRUE, value |-> "device"]
      [] text = "42" -> [ok |-> TRUE, value |-> "number"]
      [] OTHER -> [ok |-> FALSE, value |-> Null]

PresenceActions == {"join", "leave", "timeout"}

NoPresence == [action |-> Null, uuid |-> Null]

\* No call of _tryFetchDependencyAsync is followed.
NoPoll == [pc |-> "none", name |-> Null, version |-> Null, count |-> 0,
           requests |-> 0]

\* from: "bundler" or "cdn"; id: the cache id of the request; data: the
\* bundle; e: the error of the fetch; ios, android: the status of the probe
\* is below 400; listener: a dependency-error listener was set then.
NoAnswer == [from |-> Null, id |-> <<>>, data |-> NoData, e |-> Null,
             ios |-> FALSE, android |-> FALSE, listener |-> FALSE]

\* No listener is set, no fetch has failed.
NoFetch ==
    /\ dependencyErrorListener = FALSE
    /\ fallback = EmptyMap
    /\ answer = NoAnswer
    /\ poll = NoPoll

Names == {"x"}

Options ==
    [files : Bundles, sdkVersion : {Null, "legacy"}, name : {"n"},
     description : {Null}, dependencies : {EmptyMap},
     lateLhs : BOOLEAN]

\* The session that new SnackSession(options) returns.
SessionInit(options) ==
    LET r == Constructed(options)
    IN  /\ lateLhs = r.lateLhs
        /\ sdkVersion = r.sdkVersion
        /\ name = r.name
        /\ description = r.description
        /\ dependencies = r.dependencies
        /\ initialState = r.initialState
        /\ files = r.files
        /\ diff = r.diff
        /\ s3url = r.s3url
        /\ s3code = r.s3code
        /\ isStarted = r.isStarted
        /\ subscribed = r.subscribed
        /\ isResolving = r.isResolving
        /\ loadingMessage = r.loadingMessage
        /\ tasks = r.tasks
        /\ promises = r.promises
        /\ sends = r.sends
        /\ timer = r.timer
        /\ pubs = r.pubs
        /\ saves = r.saves
        /\ lastMsg = r.lastMsg
        /\ due = r.due
        /\ event = r.event
        /\ ops = r.ops

\* A session on a generated channel, with no listener registered.
Init ==
    \E options \in Options :
        /\ SessionInit(options)
        /\ sessionId = Null
        /\ channel = "S1x7aBc"
        /\ status = "constructed"
        /\ listeners = NoListeners
        /\ dispatched = NoDispatch
        /\ presence = NoPresence
        /\ source = <<>>
        /\ found = NotReturned
        /\ clock = NoClock
        /\ fires = 0
        /\ NoFetch

StartAsync ==
    /\ ops < MaxOps
    /\ Apply(Counted(startAsync(Cur("start"))))

StopAsync ==
    /\ ops < MaxOps
    /\ Apply(Counted(stopAsync(Cur("stop"))))

SendCodeAsync ==
    /\ ops < MaxOps
    /\ \E f \in Bundles : Apply(Counted(sendCodeAsync(Cur("send"), f)))

SetSdkVersion ==
    /\ ops < MaxOps
    /\ \E v \in SdkVersions : Apply(Counted(setSdkVersion(Cur("sdk"), v)))

SetName ==
    /\ ops < MaxOps
    /\ \E n \in Names : Apply(Counted(setName(Cur("name"), n)))

SaveAsync ==
    /\ ops < MaxOps
    /\ Len(saves) < MaxSaves
    /\ Apply(Counted(saveAsync(Cur("save"))))

\* presence: join
Join ==
    /\ subscribed
    /\ ops < MaxOps
    /\ LET r == _handleJoinMessage(Cur("join"))
       IN  Apply(Counted([r EXCEPT !.due.join = ~r.event.code]))

\* message: RESEND_CODE
Resend ==
    /\ subscribed
    /\ ops < MaxOps
    /\ Apply(Counted(_handleResendCodeMessage(Cur("resend"))))

\* The debounce interval has elapsed since the last call of _publish.
DebounceFire ==
    /\ timer
    /\ Apply(_publishNotDebouncedAsync([Cur("timer") EXCEPT !.timer = FALSE]))

\* The upload of an asset that a sendCodeAsync call awaits has completed.
AssetUploadDone ==
    \E i \in 1..Len(sends) : Apply(AssetUploaded(Cur("assetUploaded"), i))

\* The uploads that a publish call awaits have completed.
UploadDone ==
    \E i \in 1..Len(pubs) :
        /\ pubs[i].pc \in {"helper", "spill"}
        /\ Apply(UploadsDone([Cur("uploaded") EXCEPT !.event.stale = pubs[i].stale], i))

\* The bundler has answered the request of promise id.
FetchDone ==
    \E id \in DOMAIN promises :
        /\ ~promises[id].done
        /\ \E data \in BundlerReplies(id) :
              Apply(RunTasks([Cur("fetched") EXCEPT
                                !.promises[id].done = TRUE,
                                !.promises[id].data = data]))

\* The save endpoint has answered, with an id (ok) or without.
SaveDone ==
    \E i \in 1..Len(saves), ok \in BOOLEAN :
        Apply(SaveResponse(Cur("saveFailed"), i, ok))

Next ==
    \/ StartAsync
    \/ StopAsync
    \/ SendCodeAsync
    \/ SetSdkVersion
    \/ SetName
    \/ SaveAsync
    \/ Join
    \/ Resend
    \/ DebounceFire
    \/ AssetUploadDone
    \/ UploadDone
    \/ FetchDone
    \/ SaveDone

Spec == Init /\ [][Next]_vars

getState ==
    [files |-> files, sdkVersion |-> sdkVersion, name |-> name,
     description |-> description, dependencies |-> dependencies,
     isSaved |-> _isSaved([initialState |-> initialState, files |-> files,
                           name |-> name, description |-> description,
                           dependencies |-> dependencies, sdkVersion |-> sdkVersion]),
     isResolving |-> isResolving]

\* Nothing is pending: no timer, no call that awaits.
Quiescent ==
    /\ ~timer
    /\ sends = <<>>
    /\ pubs = <<>>
    /\ tasks = <<>>
    /\ \A id \in DOMAIN promises : promises[id].done
-----------------------------------------------------------------------------
(* The host interface as a state machine: a session of one file on an SDK  *)
(* without MULTIPLE_FILES and ARBITRARY_IMPORTS, where a publish awaits    *)
(* nothing, with its listeners and the events of the channel.              *)

SessionIds == {Null, "", "abcde", "abcdef"}

\* The categories the status listener switches on.
Categories ==
    {"PNConnectedCategory", "PNNetworkDownCategory", "PNNetworkIssuesCategory",
     "PNReconnectedCategory", "PNNetworkUpCategory"}

\* _subscribe(): pubnub.subscribe on the channel of the session.
_subscribe(s) == [s EXCEPT !.subscribed = TRUE]

\* The status listener: only the network-up category acts on the session.
statusListener(s, category) ==
    IF category = "PNNetworkUpCategory" THEN _subscribe(s) ELSE s

HostOptions ==
    {o \in Options : /\ DOMAIN o.files = {"app.js"}
                     /\ o.files["app.js"].contents.id = "s"
                     /\ o.sdkVersion = "legacy"
                     /\ ~o.lateLhs}

\* new SnackSession(options): the constructor throws after it has assigned
\* this.channel, and nothing can be called on a session it did not return.
HostInit ==
    \E options \in HostOptions, id \in SessionIds, generated \in ShortIds :
        /\ SessionInit(options)
        /\ sessionId = id
        /\ channel = Channel(id, generated)
        /\ status = IF ChannelTooShort(Channel(id, generated))
                    THEN "threw" ELSE "constructed"
        /\ listeners = NoListeners
        /\ dispatched = NoDispatch
        /\ presence = NoPresence
        /\ source = <<>>
        /\ found = NotReturned
        /\ clock = NoClock
        /\ fires = 0
        /\ NoFetch

\* A dispatch to the listeners of a kind; dispatched and presence describe
\* the last step only.
Notify(kind, removes) ==
    LET d == Dispatch(listeners, kind, removes)
    IN  /\ listeners' = [listeners EXCEPT ![kind] = d.array]
        /\ dispatched' = [kind |-> kind, before |-> listeners[kind],
                          calls |-> d.calls, after |-> d.array]

\* add<Kind>Listener(listener), with a listener not registered yet.
AddListener ==
    /\ status = "constructed"
    /\ \E kind \in ListenerKinds, l \in ListenerIds :
          /\ l \notin Registered(listeners)
          /\ \A m \in 1 .. l - 1 : m \in Registered(listeners)
          /\ listeners' = addListener(listeners, kind, l)
    /\ dispatched' = NoDispatch
    /\ presence' = NoPresence
    /\ UNCHANGED <<sessionVars, auxVars, sessionId, channel, status>>

\* subscription.remove(), called by the host between two events.
RemoveListener ==
    /\ status = "constructed"
    /\ \E kind \in ListenerKinds, i \in 1 .. MaxListeners :
          /\ i \in DOMAIN listeners[kind]
          /\ listeners' = remove(listeners, kind, listeners[kind][i])
    /\ dispatched' = NoDispatch
    /\ presence' = NoPresence
    /\ UNCHANGED <<sessionVars, auxVars, sessionId, channel, status>>

\* message: CONSOLE (_handleLogMessage) or ERROR (_handleErrorMessage).
Message ==
    /\ status = "constructed"
    /\ ops < MaxOps
    /\ subscribed
    /\ \E type \in {"CONSOLE", "ERROR"}, removes \in Removals :
          Notify(IF type = "CONSOLE" THEN "log" ELSE "error", removes)
    /\ ApplySession(Counted(Cur("message")))
    /\ presence' = NoPresence
    /\ UNCHANGED <<auxVars, sessionId, channel, status>>

\* presence: ({ action, uuid }) of the listener given to the transport.
Presence ==
    /\ status = "constructed"
    /\ ops < MaxOps
    /\ subscribed
    /\ \E action \in PresenceActions, uuid \in Uuids, removes \in Removals :
          LET device == JSONParse(uuid)
              s == Counted(Cur("presence"))
          IN  /\ presence' = [action |-> action, uuid |-> uuid]
              /\ IF device.ok
                 THEN /\ ApplySession(IF action = "join"
                                      THEN _handleJoinMessage(s) ELSE s)
                      /\ Notify("presence", removes)
                 ELSE /\ ApplySession(s)
                      /\ listeners' = listeners
                      /\ dispatched' = NoDispatch
    /\ UNCHANGED <<auxVars, sessionId, channel, status>>

\* setName(name) with its _sendStateEvent.
HostSetName ==
    /\ status = "constructed"
    /\ ops < MaxOps
    /\ \E n \in Names, removes \in Removals :
          /\ ApplySession(Counted(setName(Cur("setName"), n)))
          /\ IF name # n
             THEN Notify("state", removes)
             ELSE /\ listeners' = listeners
                  /\ dispatched' = NoDispatch
    /\ presence' = NoPresence
    /\ UNCHANGED <<auxVars, sessionId, channel, status>>

HostStartAsync ==
    /\ status = "constructed"
    /\ ops < MaxOps
    /\ ApplySession(Counted(startAsync(Cur("start"))))
    /\ dispatched' = NoDispatch
    /\ presence' = NoPresence
    /\ UNCHANGED <<auxVars, sessionId, channel, status, listeners>>

HostStopAsync ==
    /\ status = "constructed"
    /\ ops < MaxOps
    /\ ApplySession(Counted(stopAsync(Cur("stop"))))
    /\ dispatched' = NoDispatch
    /\ presence' = NoPresence
    /\ UNCHANGED <<auxVars, sessionId, channel, status, listeners>>

\* status: ({ category }) of the listener given to the transport; the
\* category is kept as the kind of the event.
Status ==
    /\ status = "constructed"
    /\ ops < MaxOps
    /\ \E category \in Categories :
          ApplySession(Counted(statusListener(Cur(category), category)))
    /\ dispatched' = NoDispatch
    /\ presence' = NoPresence
    /\ UNCHANGED <<auxVars, sessionId, channel, status, listeners>>

HostNext ==
    \/ AddListener
    \/ RemoveListener
    \/ Message
    \/ Presence
    \/ HostSetName
    \/ HostStartAsync
    \/ HostStopAsync
    \/ Status

SpecHost == HostInit /\ [][HostNext]_vars
-----------------------------------------------------------------------------
(* findModuleDependencies(code) of utils/findAndWriteDependencyVersions,   *)
(* over source text as its statements: each has a form, the arguments of   *)
(* its module position and the version of its trailing // comment.  A      *)
(* specifier is the sequence of the segments of its text.                  *)

\* Statements in one source text, apart from the texts of the tests.
MaxStatements == 2

\* An argument: a literal in quotes, in backticks, or without (a number).
Literal(quote, text) == [quote |-> quote, text |-> text]

Statement(form, args, version) ==
    [form |-> form, args |-> args, version |-> version]

\* A string literal without interpolation, not an absolute path, on one line.
PlainSpecifier(arg) ==
    /\ arg.quote \in {"quote", "backtick"}
    /\ arg.text # <<>>
    /\ arg.text[1] # "/"
    /\ \A i \in DOMAIN arg.text : arg.text[i] \notin {"\n", "${name}"}

\* A scanner that takes the first argument of a require, whatever follows.
NamesModuleByFirstArgument(st) ==
    CASE st.form \in {"import", "export from"} -> TRUE
      [] st.form = "require" -> Len(st.args) >= 1 /\ PlainSpecifier(st.args[1])
      [] OTHER -> FALSE

\* Whether the statement names a module that findModuleDependencies reports.
NamesModule(st) ==
    CASE st.form \in {"import", "export from"} -> TRUE
      [] st.form = "require" -> Len(st.args) = 1 /\ PlainSpecifier(st.args[1])
      [] OTHER -> FALSE

RECURSIVE findDependenciesOfCode(_)
findDependenciesOfCode(text) ==
    IF text = <<>> THEN EmptyMap
    ELSE LET rest == findDependenciesOfCode(Front(text))
             st == Last(text)
         IN  IF NamesModule(st)
             THEN Put(rest, st.args[1].text, st.version)
             ELSE rest

\* The source texts of the tests, statement by statement.
TestImported ==
    <<Statement("import", <<Literal("quote", <<"base64">>)>>, "1.2.3"),
      Statement("import", <<Literal("quote", <<"lodash", "/", "debounce">>)>>, "2.3.4"),
      Statement("import", <<Literal("quote", <<"react-redux">>)>>, Null)>>

TestRequired ==
    <<Statement("require", <<Literal("quote", <<"base64">>)>>, "1.2.3"),
      Statement("require", <<Literal("quote", <<"lodash", "/", "debounce">>)>>, "2.3.4"),
      Statement("require", <<Literal("quote", <<"react-redux">>)>>, Null)>>

TestBackticks ==
    <<Statement("require", <<Literal("backtick", <<"base64">>)>>, "1.2.3"),
      Statement("require", <<Literal("backtick", <<"lodash", "/", "debounce">>)>>, "2.3.4"),
      Statement("require", <<Literal("backtick", <<"react-redux">>)>>, Null)>>

TestStyles ==
    <<Statement("import", <<Literal("quote", <<"mod1">>)>>, "1.0.0"),
      Statement("import", <<Literal("quote", <<"mod2">>)>>, "2.0.0"),
      Statement("import", <<Literal("quote", <<"mod3">>)>>, "3.0.0"),
      Statement("import", <<Literal("quote", <<"mod4">>)>>, "4.0.0"),
      Statement("import", <<Literal("quote", <<"mod5">>)>>, "5.0.0"),
      Statement("export from", <<Literal("quote", <<"mod6">>)>>, "6.0.0"),
      Statement("export from", <<Literal("quote", <<"mod7">>)>>, "7.0.0"),
      Statement("export from", <<Literal("quote", <<"mod8">>)>>, "8.0.0"),
      Statement("export", <<>>, Null),
      Statement("export", <<>>, Null),
      Statement("const", <<>>, Null),
      Statement("export", <<>>, Null)>>

TestInvalid ==
    <<Statement("require", <<>>, Null),
      Statement("require", <<Literal("quote", <<"debounce">>), Literal("none", <<"null">>)>>, "2.3.4"),
      Statement("require", <<Literal("backtick", <<"${name}">>)>>, Null),
      Statement("require", <<Literal("backtick", <<"left-", "${name}">>)>>, Null),
      Statement("require", <<Literal("quote", <<"/", "core">>)>>, Null),
      Statement("require", <<Literal("quote", <<"promise", "\n", "me">>)>>, Null),
      Statement("require", <<Literal("backtick", <<"blue", "\n", "bird", "\n">>)>>, Null),
      Statement("require", <<Literal("none", <<"10">>)>>, Null)>>

\* What the tests expect.
Expected(text) ==
    CASE text \in {TestImported, TestRequired, TestBackticks} ->
            [k \in {<<"base64">>, <<"lodash", "/", "debounce">>, <<"react-redux">>} |->
                CASE k = <<"base64">> -> "1.2.3"
                  [] k = <<"lodash", "/", "debounce">> -> "2.3.4"
                  [] OTHER -> Null]
      [] text = TestStyles ->
            [k \in {<<"mod1">>, <<"mod2">>, <<"mod3">>, <<"mod4">>, <<"mod5">>,
                    <<"mod6">>, <<"mod7">>, <<"mod8">>} |->
                CASE k = <<"mod1">> -> "1.0.0" [] k = <<"mod2">> -> "2.0.0"
                  [] k = <<"mod3">> -> "3.0.0" [] k = <<"mod4">> -> "4.0.0"
                  [] k = <<"mod5">> -> "5.0.0" [] k = <<"mod6">> -> "6.0.0"
                  [] k = <<"mod7">> -> "7.0.0" [] OTHER -> "8.0.0"]
      [] OTHER -> EmptyMap

Tests == {TestImported, TestRequired, TestBackticks, TestStyles, TestInvalid}

Statements ==
    {Statement(form, <<Literal("quote", <<"a">>)>>, version) :
        form \in {"import", "export from"}, version \in {Null, "1.0.0"}}
    \cup {Statement("require", args, version) :
            args \in {<<>>, <<Literal("quote", <<"a">>)>>, <<Literal("backtick", <<"b", "/", "c">>)>>,
                      <<Literal("quote", <<"a">>), Literal("none", <<"null">>)>>,
                      <<Literal("none", <<"10">>)>>, <<Literal("backtick", <<"a", "${name}">>)>>,
                      <<Literal("quote", <<"/", "a">>)>>, <<Literal("backtick", <<"a", "\n">>)>>},
            version \in {Null, "2.0.0"}}
    \cup {Statement("const", <<>>, Null)}

Codes ==
    Tests \cup UNION {[1 .. n -> Statements] : n \in 0 .. MaxStatements}

\* The session takes no part: a source text is given, the function is applied.
ParseInit ==
    /\ \E options \in HostOptions : SessionInit(options)
    /\ sessionId = Null
    /\ channel = "S1x7aBc"
    /\ status = "constructed"
    /\ listeners = NoListeners
    /\ dispatched = NoDispatch
    /\ presence = NoPresence
    /\ source \in Codes
    /\ found = NotReturned
    /\ clock = NoClock
    /\ fires = 0
    /\ NoFetch

FindModuleDependencies ==
    /\ ~found.returned
    /\ found' = [returned |-> TRUE, value |-> findDependenciesOfCode(source)]
    /\ UNCHANGED <<sessionVars, hostVars, fetchVars, source, clock, fires>>

ParseNext == FindModuleDependencies

SpecParse == ParseInit /\ [][ParseNext]_vars
-----------------------------------------------------------------------------
(* The debounce of _publish in time: sendCodeAsync calls with and without  *)
(* asset uploads, the timer of lodash debounce (trailing edge, no maxWait) *)
(* and the passing of time in steps of Step ms.  Ages stop at              *)
(* DEBOUNCE_INTERVAL, beyond which nothing distinguishes them.             *)

\* debounce(func, wait) on a call: the pending timer counts from this call.
Debounced(c, called) == IF called THEN [c EXCEPT !.timer = 0] ELSE c

\* The clock after a step in which _publish() was called or not.
Scheduled(c, called) ==
    Debounced(IF called THEN [c EXCEPT !.publish = 0] ELSE c, called)

\* A burst of calls goes on while each comes less than DEBOUNCE_INTERVAL
\* after the one before; a new burst counts its publishes from zero.
Burst(n, age) == IF age >= DEBOUNCE_INTERVAL THEN 0 ELSE n

DebounceInit ==
    /\ \E options \in HostOptions : SessionInit(options)
    /\ sessionId = Null
    /\ channel = "S1x7aBc"
    /\ status = "constructed"
    /\ listeners = NoListeners
    /\ dispatched = NoDispatch
    /\ presence = NoPresence
    /\ source = <<>>
    /\ found = NotReturned
    /\ clock = NoClock
    /\ fires = 0
    /\ NoFetch

\* sendCodeAsync(f), up to its first await or to its _publish().
TimedSendCodeAsync ==
    /\ ops < MaxOps
    /\ \E f \in Bundles :
          LET r == Counted(sendCodeAsync(Cur("send"), f))
              called == r.event.kind = "sent"
          IN  /\ ApplySession(r)
              /\ clock' = Scheduled([clock EXCEPT !.call = 0], called)
              /\ fires' = Burst(fires, clock.call)
    /\ UNCHANGED <<hostVars, fetchVars, source, found>>

\* The upload of an asset completes; the call goes on to its _publish().
TimedAssetUploadDone ==
    /\ \E i \in 1..Len(sends) :
          LET r == AssetUploaded(Cur("assetUploaded"), i)
              called == r.event.kind = "sent"
          IN  /\ ApplySession(r)
              /\ clock' = Scheduled(clock, called)
    /\ UNCHANGED <<hostVars, fetchVars, source, found, fires>>

\* The timer of the debounce fires: DEBOUNCE_INTERVAL has passed since the
\* call it counts from.
TimerFire ==
    /\ timer
    /\ clock.timer >= DEBOUNCE_INTERVAL
    /\ ApplySession(_publishNotDebouncedAsync([Cur("timer") EXCEPT !.timer = FALSE]))
    /\ fires' = IF fires < 2 THEN fires + 1 ELSE 2
    /\ UNCHANGED <<hostVars, fetchVars, source, found, clock>>

\* Step ms pass; a timer that is due fires before more time passes.
Tick ==
    /\ ~(timer /\ clock.timer >= DEBOUNCE_INTERVAL)
    /\ \E a \in {"call", "publish", "timer"} : clock[a] < DEBOUNCE_INTERVAL
    /\ clock' = [a \in {"call", "publish", "timer"} |->
                    IF clock[a] + Step >= DEBOUNCE_INTERVAL THEN DEBOUNCE_INTERVAL
                    ELSE clock[a] + Step]
    /\ UNCHANGED <<sessionVars, hostVars, fetchVars, source, found, fires>>

DebounceNext ==
    \/ TimedSendCodeAsync
    \/ TimedAssetUploadDone
    \/ TimerFire
    \/ Tick

SpecDebounce == DebounceInit /\ [][DebounceNext]_vars
-----------------------------------------------------------------------------
(* _tryFetchDependencyAsync(name, version) as a state machine of its own:  *)
(* one call, the bundler answering each request.  count is the variable of *)
(* the code, requests the number of calls of fetch.                        *)

MAX_POLLS == 30

\* The loop from its condition, with data pending or not set, to the next
\* await: the check of count, count++, the request.
PollLoop(p) ==
    IF p.count > MAX_POLLS THEN [p EXCEPT !.pc = "timedout"]
    ELSE [p EXCEPT !.count = @ + 1, !.requests = @ + 1, !.pc = "request"]

_tryFetchDependencyAsync(n, version) ==
    PollLoop([NoPoll EXCEPT !.name = n, !.version = version])

\* What the bundler may answer: 200 with { pending: true }, 200 with the
\* bundle, 200 with a body that is false, anything else (another status, a
\* body that cannot be read).
PollReplies == {"pending", "data", "false", "error"}

\* res of `await fetch(...)`, up to the next await or the end of the call.
PollResponded(p, reply) ==
    CASE reply = "error" -> [p EXCEPT !.pc = "failed"]
      [] reply = "data" -> [p EXCEPT !.pc = "returned"]
      [] reply = "pending" -> [p EXCEPT !.pc = "sleep"]
      [] OTHER -> PollLoop(p)

PollInit ==
    /\ \E options \in HostOptions : SessionInit(options)
    /\ sessionId = Null
    /\ channel = "S1x7aBc"
    /\ status = "constructed"
    /\ listeners = NoListeners
    /\ dispatched = NoDispatch
    /\ presence = NoPresence
    /\ source = <<>>
    /\ found = NotReturned
    /\ clock = NoClock
    /\ fires = 0
    /\ dependencyErrorListener = FALSE
    /\ fallback = EmptyMap
    /\ answer = NoAnswer
    /\ \E n \in {"m", "p"}, version \in {Null, "1", "^2"} :
          poll = [NoPoll EXCEPT !.pc = "called", !.name = n, !.version = version]

TryFetchDependencyAsync ==
    /\ poll.pc = "called"
    /\ poll' = _tryFetchDependencyAsync(poll.name, poll.version)
    /\ UNCHANGED <<sessionVars, hostVars, source, found, clock, fires,
                   dependencyErrorListener, fallback, answer>>

PollResponse ==
    /\ poll.pc = "request"
    /\ \E reply \in PollReplies : poll' = PollResponded(poll, reply)
    /\ UNCHANGED <<sessionVars, hostVars, source, found, clock, fires,
                   dependencyErrorListener, fallback, answer>>

\* The 5000 ms of setTimeout have passed.
PollWake ==
    /\ poll.pc = "sleep"
    /\ poll' = PollLoop(poll)
    /\ UNCHANGED <<sessionVars, hostVars, source, found, clock, fires,
                   dependencyErrorListener, fallback, answer>>

PollNext ==
    \/ TryFetchDependencyAsync
    \/ PollResponse
    \/ PollWake

SpecPoll == PollInit /\ [][PollNext]_vars
-----------------------------------------------------------------------------
(* The promise cache and the fallback of a failed fetch as a state machine: *)
(* a session on the default SDK whose files import m and p, the bundler    *)
(* answering or failing, the CDN answering the probe for ios and android.  *)

\* configs/npmVersions, of which the session reads two pins.
npmVersionPins == [default |-> "defaultPin", error |-> "errorPin"]

\* sendCodeAsync calls in one behaviour.
MaxSends == 2

FetchBundles ==
    { [k \in {"app.js", "b.js"} |->
          IF k = "app.js" THEN File("CODE", Text("s", [m |-> Null]))
          ELSE File("CODE", Text("s", [p |-> Null]))],
      [k \in {"app.js"} |-> File("CODE", Text("s", EmptyMap))] }

\* A probe that is content with one platform.
SomePlatformUploaded(ios, android) == ios \/ android

\* results.every(result => result) over the platforms ios and android; a
\* probe whose fetch throws counts as false.
_checkS3ForDepencencyAsync(ios, android) == ios /\ android

\* The catch handler of _maybeFetchDependencyAsync for cache id and error e
\* once the probe has answered: what it stores in this._promises[id], the
\* error the stored object carries, whether it calls the listener.  No file
\* of FetchBundles names the version latest: the version is absent when the
\* id ends in latest.
CatchFetch(id, e, uploaded, listener) ==
    IF uploaded
    THEN [data |-> Data(id[1],
                        IF id[2] = "latest" THEN npmVersionPins.default ELSE id[2],
                        EmptyMap),
          error |-> e, notify |-> FALSE]
    ELSE [data |-> Data(id[1], npmVersionPins.error, EmptyMap),
          error |-> Null, notify |-> listener]

FetchInit ==
    /\ \E f \in FetchBundles :
          SessionInit([files |-> f, sdkVersion |-> Null, name |-> "n",
                       description |-> Null, dependencies |-> EmptyMap,
                       lateLhs |-> FALSE])
    /\ sessionId = Null
    /\ channel = "S1x7aBc"
    /\ status = "constructed"
    /\ listeners = NoListeners
    /\ dispatched = NoDispatch
    /\ presence = NoPresence
    /\ source = <<>>
    /\ found = NotReturned
    /\ clock = NoClock
    /\ fires = 0
    /\ NoFetch

\* session.dependencyErrorListener = listener, by the host.
SetDependencyErrorListener ==
    /\ ~dependencyErrorListener
    /\ dependencyErrorListener' = TRUE
    /\ ApplySession(Cur("listener"))
    /\ UNCHANGED <<hostVars, source, found, clock, fires, fallback, answer, poll>>

FetchSendCodeAsync ==
    /\ ops < MaxSends
    /\ \E f \in FetchBundles : Apply(Counted(sendCodeAsync(Cur("send"), f)))

\* _tryFetchDependencyAsync has returned the bundle for promise id.
FetchResolved ==
    \E id \in DOMAIN promises :
        /\ ~promises[id].done
        /\ id \notin DOMAIN fallback
        /\ \E data \in BundlerReplies(id) :
              /\ answer' = [NoAnswer EXCEPT !.from = "bundler", !.id = id,
                                            !.data = data]
              /\ ApplySession(RunTasks([Cur("fetched") EXCEPT
                                           !.promises[id].done = TRUE,
                                           !.promises[id].data = data]))
        /\ UNCHANGED <<hostVars, source, found, clock, fires,
                       dependencyErrorListener, fallback, poll>>

\* _tryFetchDependencyAsync has thrown for promise id: a status other than
\* 200, or the timeout.  The catch handler awaits the probe.
FetchFailed ==
    \E id \in DOMAIN promises, e \in {"status", "timeout"} :
        /\ ~promises[id].done
        /\ id \notin DOMAIN fallback
        /\ fallback' = Put(fallback, id,
                           [e |-> e, probed |-> FALSE, error |-> Null,
                            notified |-> 0])
        /\ answer' = [NoAnswer EXCEPT !.from = "bundler", !.id = id, !.e = e]
        /\ ApplySession(Cur("failed"))
        /\ UNCHANGED <<hostVars, source, found, clock, fires,
                       dependencyErrorListener, poll>>

\* The CDN has answered the two requests of the probe for promise id; ios
\* and android: the status is below 400.
ProbeDone ==
    \E id \in DOMAIN fallback, ios \in BOOLEAN, android \in BOOLEAN :
        /\ ~fallback[id].probed
        /\ LET r == CatchFetch(id, fallback[id].e,
                               _checkS3ForDepencencyAsync(ios, android),
                               dependencyErrorListener)
           IN  /\ fallback' =
                     [fallback EXCEPT ![id] =
                         [@ EXCEPT !.probed = TRUE, !.e = Null, !.error = r.error,
                                   !.notified = @ + IF r.notify THEN 1 ELSE 0]]
               /\ answer' = [NoAnswer EXCEPT
                                !.from = "cdn", !.id = id, !.e = fallback[id].e,
                                !.ios = ios, !.android = android,
                                !.listener = dependencyErrorListener]
               /\ ApplySession(RunTasks([Cur("probed") EXCEPT
                                            !.promises[id].done = TRUE,
                                            !.promises[id].data = r.data]))
        /\ UNCHANGED <<hostVars, source, found, clock, fires,
                       dependencyErrorListener, poll>>

FetchNext ==
    \/ SetDependencyErrorListener
    \/ FetchSendCodeAsync
    \/ DebounceFire
    \/ FetchResolved
    \/ FetchFailed
    \/ ProbeDone

SpecFetch == FetchInit /\ [][FetchNext]_vars

\* The steps FetchResolved and FetchFailed, by what they do to answer: a
\* request to the bundler is outstanding and returns.
BundlerReturns ==
    \E id \in DOMAIN promises :
        /\ ~promises[id].done
        /\ id \notin DOMAIN fallback
        /\ \/ \E data \in BundlerReplies(id) :
                 answer' = [NoAnswer EXCEPT !.from = "bundler", !.id = id,
                                           !.data = data]
           \/ \E e \in {"status", "timeout"} :
                 answer' = [NoAnswer EXCEPT !.from = "bundler", !.id = id, !.e = e]

\* The steps ProbeDone, by what they do to answer: a probe is outstanding
\* and the CDN answers it.
CdnReturns ==
    \E id \in DOMAIN fallback, ios \in BOOLEAN, android \in BOOLEAN :
        /\ ~fallback[id].probed
        /\ answer' = [NoAnswer EXCEPT
                         !.from = "cdn", !.id = id, !.e = fallback[id].e,
                         !.ios = ios, !.android = android,
                         !.listener = dependencyErrorListener]

\* Each request to the bundler and to the CDN returns.
SpecFetchLive ==
    /\ SpecFetch
    /\ WF_answer(BundlerReturns)
    /\ WF_answer(CdnReturns)
-----------------------------------------------------------------------------
(* Properties. *)

\* C1: when a call sendCodeAsync(f) completes, this.files has exactly the keys
\* of f and every key names the file object of f, also when another
\* sendCodeAsync call ran while this one awaited an asset upload.
FilesEqualArgument ==
    event.kind = "sent" =>
        /\ DOMAIN files = DOMAIN event.f
        /\ \A k \in DOMAIN files : files[k].owner = event.owner

\* A call completed and this.files lacks a key of its argument.
SentWithKeyMissing ==
    /\ event.kind = "sent"
    /\ \E k \in DOMAIN event.f : k \notin DOMAIN files

\* C2: an edit that no other edit follows is published as a CODE message once
\* the debounce interval has elapsed and every pending request has completed,
\* whatever resolution or loading notification was in progress meanwhile.
EditReachesTransport == Quiescent => ~due.edit

\* Everything has completed and the last edit was answered by a
\* LOADING_MESSAGE only.
EditLostToLoading ==
    /\ Quiescent
    /\ due.edit
    /\ lastMsg.type = "LOADING_MESSAGE"
    /\ ops = 1

\* C3: a join is followed by a CODE publish without a further call by the
\* host, also when it arrives while a resolution has set the loading message.
JoinReceivesCode == Quiescent => ~due.join

\* Everything has completed and the join was answered by a LOADING_MESSAGE
\* only.
JoinLostToLoading ==
    /\ Quiescent
    /\ due.join
    /\ lastMsg.type = "LOADING_MESSAGE"
    /\ ops = 2

\* The CODE message m carries the bundle fs.
Carries(m, fs, version) ==
    IF sdkSupportsFeature(version, "MULTIPLE_FILES")
    THEN \A k \in DOMAIN fs :
            /\ k \in DOMAIN m.diff
            /\ IF m.diff[k].patch THEN m.diff[k].to = fs[k].contents
               ELSE k \in DOMAIN m.s3url
    ELSE m.code = fs["app.js"].contents

-----------------------------------------------------------------------------
(* Payload bound. *)

\* C5: with MULTIPLE_FILES supported (and every upload succeeding, as in this
\* model), the {diff, s3url} payload of a published CODE message has an
\* estimated size of at most MAX_PUBNUB_SIZE.
PayloadWithinLimit ==
    (event.code /\ supportsFeature([sdkVersion |-> sdkVersion], "MULTIPLE_FILES"))
        => calcPayloadSize(lastMsg.diff, lastMsg.s3url) <= MAX_PUBNUB_SIZE

\* A CODE message above the limit: the ledger still holds the diff of a file
\* that was removed from the bundle, which the spill loop cannot replace.
OversizePublished ==
    /\ event.code
    /\ supportsFeature([sdkVersion |-> sdkVersion], "MULTIPLE_FILES")
    /\ calcPayloadSize(lastMsg.diff, lastMsg.s3url) > MAX_PUBNUB_SIZE
    /\ \E k \in DOMAIN lastMsg.diff : k \notin DOMAIN files
    /\ \A i \in 1..Len(pubs) : ~pubs[i].stale

-----------------------------------------------------------------------------
(* Saved flag, resolution, start and stop. *)

\* C6: getState().isSaved is true right after construction and right after a
\* saveAsync whose response carried an id, whatever the session holds then.
SavedAfterConstructionAndSave ==
    event.kind \in {"constructed", "saved"} => getState.isSaved

\* A save completed after the session had changed since the request was sent.
SavedAfterChange ==
    /\ event.kind = "saved"
    /\ name = "x"
    /\ initialState.name = "x"
    /\ getState.isSaved

\* C7: at most one resolution runs: once isResolving has been released and a
\* later resolution has started, no per-file task of an earlier resolution is
\* still running.
SingleResolution ==
    isResolving => \A i \in 1..Len(tasks) : tasks[i].live

\* A resolution runs while a task of an earlier one still awaits its fetches.
ResolutionsOverlap ==
    /\ isResolving
    /\ \E i, j \in 1..Len(tasks) : tasks[i].live /\ ~tasks[j].live

\* C8: no step adds react, react-native or expo as a key of
\* this.dependencies or changes the entry of one of them.
ReservedNeverAdded ==
    [][\A n \in Reserved \cap DOMAIN dependencies' :
          n \in DOMAIN dependencies /\ dependencies'[n] = dependencies[n]]_vars

\* A reserved name is a key of this.dependencies after a resolution.
ReservedInDependencies ==
    /\ event.kind = "fetched"
    /\ Reserved \cap DOMAIN dependencies # {}

\* C9: before startAsync has been called nothing is handed to the transport.
SilentBeforeStart == ~isStarted => lastMsg.type = "NONE"

\* A CODE message was published by a session that was never started.
CodeBeforeStart ==
    /\ ~isStarted
    /\ event.code
    /\ lastMsg.type = "CODE"

ListenersAllCalledInOrder ==
    dispatched.kind # Null =>
        /\ \A i, j \in DOMAIN dispatched.calls :
              i < j =>
                \E a, b \in DOMAIN dispatched.before :
                    /\ a < b
                    /\ dispatched.before[a] = dispatched.calls[i]
                    /\ dispatched.before[b] = dispatched.calls[j]
        /\ \A i \in DOMAIN dispatched.after :
              \E j \in DOMAIN dispatched.calls :
                  dispatched.calls[j] = dispatched.after[i]

\* A listener removed itself in its callback and the listener registered
\* after it, which is still registered, was not called.
ListenerSkipped ==
    /\ dispatched.kind # Null
    /\ Len(dispatched.before) >= 2
    /\ dispatched.before[1] \in {dispatched.calls[i] : i \in DOMAIN dispatched.calls}
    /\ dispatched.before[2] \in {dispatched.after[i] : i \in DOMAIN dispatched.after}
    /\ dispatched.before[2] \notin {dispatched.calls[i] : i \in DOMAIN dispatched.calls}

\* C12: a session whose channel is shorter than MIN_CHANNEL_LENGTH is not
\* constructed (the constructor throws), every constructed session has a
\* channel of at least MIN_CHANNEL_LENGTH characters, and no step changes the
\* channel.
ChannelFixedAndLongEnough ==
    /\ [](status = "constructed" => Len(channel) >= MIN_CHANNEL_LENGTH)
    /\ [](Len(channel) < MIN_CHANNEL_LENGTH => status = "threw")
    /\ [][channel' = channel]_vars

\* The constructor threw on a session id of five characters.
ShortChannelThrew ==
    /\ sessionId = "abcde"
    /\ channel = "abcde"
    /\ status = "threw"

\* C13: a presence event whose identifier does not decode as a device
\* descriptor calls no presence listener and publishes nothing.
UndecodablePresenceIgnored ==
    (presence.action # Null /\ JSONParse(presence.uuid).value # "device") =>
        /\ dispatched.calls = <<>>
        /\ ~event.code
        /\ ~event.loading

\* A join whose identifier is the JSON number 42 published the code and
\* called a presence listener.
NumberJoinPublished ==
    /\ presence = [action |-> "join", uuid |-> "42"]
    /\ dispatched.kind = "presence"
    /\ dispatched.calls # <<>>
    /\ event.code

PublishesSerialized ==
    \A i, j \in DOMAIN pubs :
        (pubs[i].pc \in {"helper", "spill"} /\ pubs[j].pc \in {"helper", "spill"})
            => i = j

\* A second publish has run _uploadHelper and awaits its own upload of an
\* asset while the first still awaits: the ledger entry the first will
\* publish was rewritten under it.
TwoPublishesBuildLedger ==
    /\ Len(pubs) >= 2
    /\ pubs[1].pc = "helper" /\ pubs[2].pc = "helper"
    /\ \E k \in DOMAIN pubs[1].uploads : k \in DOMAIN pubs[2].uploads

\* C16: a published CODE message carries diff and s3url entries only for
\* keys of this.files: a key removed by sendCodeAsync has left the ledger
\* when the next publish is made.
LedgerFollowsFiles ==
    (event.code /\ supportsFeature([sdkVersion |-> sdkVersion], "MULTIPLE_FILES"))
        => /\ DOMAIN lastMsg.diff \subseteq DOMAIN files
           /\ DOMAIN lastMsg.s3url \subseteq DOMAIN files
           /\ DOMAIN s3code \subseteq DOMAIN files

\* The publish after sendCodeAsync removed b.js still carries diff["b.js"],
\* with no publish call awaiting when the edit was made.
RemovedKeyPublished ==
    /\ event.code
    /\ event.kind = "timer"
    /\ supportsFeature([sdkVersion |-> sdkVersion], "MULTIPLE_FILES")
    /\ DOMAIN files = {"app.js"}
    /\ "b.js" \in DOMAIN lastMsg.diff

\* C17: in a published CODE message with MULTIPLE_FILES on, every key of
\* this.files that the message covers has a diff from the empty string, or
\* it has an entry in s3url and its diff is empty or a diff from the
\* contents that were uploaded to that URL.
EveryFileReconstructible ==
    (event.code /\ supportsFeature([sdkVersion |-> sdkVersion], "MULTIPLE_FILES"))
        => \A k \in DOMAIN files \cap DOMAIN lastMsg.diff :
              \/ /\ lastMsg.diff[k].patch
                 /\ lastMsg.diff[k].from = EmptyString
              \/ /\ k \in DOMAIN lastMsg.s3url
                 /\ \/ lastMsg.diff[k] = NoDiff
                    \/ Url(lastMsg.diff[k].from) = lastMsg.s3url[k]

\* A CODE message with an empty diff for a file and no URL for it.
EmptyDiffWithoutUrl ==
    /\ event.code
    /\ supportsFeature([sdkVersion |-> sdkVersion], "MULTIPLE_FILES")
    /\ \E k \in DOMAIN files :
          /\ k \in DOMAIN lastMsg.diff
          /\ lastMsg.diff[k] = NoDiff
          /\ k \notin DOMAIN lastMsg.s3url

\* C18: the spill loop uploads only the text of a file: never an asset that
\* _uploadHelper uploaded, never contents that are an object-store URL.
SpillPicksTextOnly ==
    \A i \in DOMAIN pubs :
        pubs[i].pc = "spill" =>
            \A k \in DOMAIN pubs[i].uploads :
                \E b \in Bundles :
                    /\ k \in DOMAIN b
                    /\ b[k].contents.kind = "text"
                    /\ pubs[i].uploads[k] = Url(b[k].contents)

\* The spill loop awaits the upload of c.png, whose contents are a blob or
\* the URL of one.
SpillPickedAsset ==
    \E i \in DOMAIN pubs :
        /\ pubs[i].pc = "spill"
        /\ "c.png" \in DOMAIN pubs[i].uploads

\* C20: no CODE message is published while loadingMessage is set or while
\* isResolving is true.
NoCodeWhileResolving ==
    event.code => (loadingMessage = Null /\ ~isResolving)

\* A publish that awaited an upload published CODE during a resolution.
CodePublishedWhileResolving ==
    /\ event.code
    /\ event.kind = "uploaded"
    /\ isResolving

\* C19: a debounced publish fires only once DEBOUNCE_INTERVAL has passed
\* since the most recent sendCodeAsync call and when no call is still
\* updating this.files, a call publishes nothing itself, and the calls of a
\* burst (each less than DEBOUNCE_INTERVAL after the one before) cause one
\* debounced publish.
PublishTrailsCalls ==
    /\ event.kind = "timer" => (clock.call >= DEBOUNCE_INTERVAL /\ sends = <<>>)
    /\ event.kind \in {"send", "sent"} => ~event.code
    /\ fires <= 1

\* The timer fired while a later call, made less than DEBOUNCE_INTERVAL ago,
\* still awaits the upload of its asset.
FiredDuringLaterCall ==
    /\ event.kind = "timer"
    /\ event.code
    /\ clock.call < DEBOUNCE_INTERVAL
    /\ clock.publish >= DEBOUNCE_INTERVAL
    /\ sends # <<>>
-----------------------------------------------------------------------------
(* C21: a network-up status event subscribes only a session that is        *)
(* started and not stopped: a status event that finds the session          *)
(* unsubscribed, before startAsync or after stopAsync, leaves it           *)
(* unsubscribed.                                                           *)
StatusKeepsUnsubscribed ==
    [][(event'.kind \in Categories /\ ~subscribed) => ~subscribed']_vars

\* A network-up event has subscribed a session that was never started.
SubscribedBeforeStart ==
    /\ event.kind = "PNNetworkUpCategory"
    /\ subscribed
    /\ ~isStarted

\* C28: when a save succeeds, the snapshot stored as initialState is the
\* manifest and the files of the request that was sent, whatever the session
\* did while the request was in flight.
SavedWhatWasSent ==
    [][event'.kind = "saved" =>
          \E i \in 1..Len(saves) :
              /\ saves' = SubSeq(saves, 1, i - 1) \o SubSeq(saves, i + 1, Len(saves))
              /\ initialState' = Sent(Cur("saved"), i)]_vars

\* A save has succeeded whose request differs from the session it finds, and
\* the session reports itself saved.
SavedWhatWasNotSent ==
    /\ event.kind = "saved"
    /\ event.stale
    /\ getState.isSaved

\* C23: a bundler fetch for one (name, version) issues at most 30 requests:
\* when 30 responses have said pending it raises the timeout without a 31st
\* request.
AtMostThirtyRequests ==
    /\ poll.requests <= 30
    /\ (poll.requests = 30 /\ poll.pc = "sleep") =>
           PollLoop(poll).pc = "timedout"

\* The 31st request is on its way.
ThirtyFirstRequest ==
    /\ poll.pc = "request"
    /\ poll.requests = 31

\* C22: for each cache key the session calls _tryFetchDependencyAsync at most
\* once: a requester that finds the key in this._promises, in flight or
\* settled, to a bundle or to the result of a failure, starts no other fetch.
OneFetchPerCacheKey ==
    \A id \in DOMAIN promises : promises[id].tries = 1

\* A later resolution asked for a key whose fetch had failed, and was given
\* the result the catch handler had stored.
CachedFailureServed ==
    \E id \in event.cached :
        /\ id \in DOMAIN fallback
        /\ fallback[id].probed
        /\ promises[id].done
        /\ promises[id].tries = 1

\* C24: a failed fetch settles its cache key to a result and not to a
\* rejection: when the CDN answers below 400 for ios and for android the
\* result is the name with the requested version or the default pin and the
\* error; otherwise it is the name with the error pin, and the listener, if
\* one is set, is called once for the key.
FailedFetchSettlesToPin ==
    /\ [](\A id \in DOMAIN fallback : fallback[id].notified <= 1)
    /\ [][event'.kind = "probed" =>
            LET id == answer'.id
                q == promises'[id]
            IN  /\ id \in DOMAIN fallback
                /\ ~promises[id].done
                /\ answer'.e \in {"status", "timeout"}
                /\ q.done
                /\ q.data.name = id[1]
                /\ IF answer'.ios /\ answer'.android
                   THEN /\ q.data.version =
                              IF id[2] = "latest" THEN npmVersionPins.default
                              ELSE id[2]
                        /\ fallback'[id].error = answer'.e
                        /\ fallback'[id].notified = fallback[id].notified
                   ELSE /\ q.data.version = npmVersionPins.error
                        /\ fallback'[id].error = Null
                        /\ fallback'[id].notified =
                              fallback[id].notified
                              + IF answer'.listener THEN 1 ELSE 0]_vars

\* The fetch of a key timed out, android was missing on the CDN, and the
\* listener was called for the key.
ErrorPinNotified ==
    /\ event.kind = "probed"
    /\ answer.e = "timeout"
    /\ answer.ios
    /\ ~answer.android
    /\ fallback[answer.id].notified = 1
    /\ promises[answer.id].data.version = npmVersionPins.error

\* C25: every resolution that starts ends: whenever isResolving is set, a
\* state follows in which isResolving is false and loadingMessage is null,
\* whichever way the resolution is left, provided each request to the
\* bundler and to the CDN returns.
ResolutionEnds ==
    isResolving ~> (~isResolving /\ loadingMessage = Null)

\* A resolution ended with the answer of the CDN to the probe of a failed
\* fetch and pinned the module to the error pin.
EndedAfterFailedFetch ==
    /\ event.kind = "probed"
    /\ ~isResolving
    /\ loadingMessage = Null
    /\ answer.id[1] \in DOMAIN dependencies
    /\ dependencies[answer.id[1]] = npmVersionPins.error

\* C27: once a resolution has committed, a module that a .js file imports
\* directly is pinned in this.dependencies to the version of its direct
\* fetch result: where the import of a file carries the version that the
\* fetch of the module itself returned, this.dependencies has that version,
\* whatever another module names as its peer.
DirectResultPinned ==
    (~isResolving /\ tasks = <<>>) =>
        \A k \in DOMAIN files :
            \A n \in DOMAIN PickModules(files[k].contents) :
                LET id == CacheId(n, Null)
                    pin == files[k].contents.imports[n]
                IN  (/\ EndsWithJs(k)
                     /\ id \in DOMAIN promises
                     /\ promises[id].done
                     /\ promises[id].data.name = n
                     /\ pin = promises[id].data.version)
                    => /\ n \in DOMAIN dependencies
                       /\ dependencies[n] = pin

\* b.js imports p, whose fetch returned version 3 and was written into b.js;
\* p is a peer of the m that app.js imports, and this.dependencies has the
\* version 2 of the peer.
PeerOverDirect ==
    /\ ~isResolving
    /\ tasks = <<>>
    /\ "b.js" \in DOMAIN files
    /\ files["b.js"].contents.imports = [p |-> "3"]
    /\ promises[<<"p", "latest">>].data.version = "3"
    /\ dependencies["p"] = "2"

\* C26: a rewrite is written into a file only when the contents of the file
\* are those captured when its callback began, so that contents which
\* sendCodeAsync has put there since are kept; and a callback that finds its
\* file replaced or removed ends alone: every callback that still awaits
\* belongs to a resolution that has not ended.
RewriteGuardedPerFile ==
    /\ [](\A i \in 1..Len(tasks) :
             tasks[i].stage \in {"direct", "peers"} => tasks[i].live)
    /\ [][\A k \in DOMAIN files \cap DOMAIN files' :
             (/\ event'.kind \in {"fetched", "probed"}
              /\ files'[k].contents # files[k].contents)
             => \E i \in 1..Len(tasks) :
                    /\ tasks[i].key = k
                    /\ tasks[i].file = files[k].contents]_vars

\* The callback of b.js found its file removed; the resolution has ended
\* and the callback of app.js still awaits its fetch.
RemovedFileEndedResolution ==
    /\ event.kind \in {"fetched", "probed"}
    /\ "b.js" \notin DOMAIN files
    /\ ~isResolving
    /\ \E i \in 1..Len(tasks) :
          /\ tasks[i].key = "app.js"
          /\ tasks[i].stage = "direct"
          /\ ~tasks[i].live
====
